---- MODULE Spec2Model ----
(***************************************************************************)
(* Model of mldata.dataset.Dataset (src/mldata/dataset.py): the page cache *)
(* behind _get_key, slice / index / identifier access (__getitem__),       *)
(* _request_segment and its shared content future, iteration with a page   *)
(* prefetched ahead, and the mutations __delitem__ / add_element followed  *)
(* by refresh; then _get_key as concurrent threads run it, and the two    *)
(* worker pools with the caller blocked on their jobs.  The remote server  *)
(* is the ordered list `server` of element identifiers; identifiers are    *)
(* positive integers standing for the server's identifier strings (all of  *)
(* length >= 8).                                                           *)
(***************************************************************************)
EXTENDS Integers, Sequences, FiniteSets, TLC

\* ---------------------------------------------------------------- bounds
MaxElems == 2       \* elements on the server at construction: 0..MaxElems
MaxPageSize == 2    \* the session's Page-Size is drawn from 1..MaxPageSize
MaxMutations == 1   \* add_element / __delitem__ calls that reach the server

MaxPoolElems == 5   \* elements of the dataset whose jobs fill the pools

\* mldata.config.CACHE_TIME, in clock ticks (imported at dataset.py:9)
CACHE_TIME == 1

\* ThreadPoolExecutor(4), twice (dataset.py:17 and 18)
KeysWorkers == 4
ContentWorkers == 4

VARIABLES
    server,           \* remote: the dataset's element identifiers, in order
    next_id,          \* remote: the identifier the next created element gets
    mutations,        \* remote: how many times the element list has changed
    ps,               \* self.server_info['Page-Size']
    elements_count,   \* self.elements_count
    page_cache,       \* self.page_cache: page number -> [ids, age]
    cache_age,        \* now() - self.last_cache_time, in ticks, counted up to
                      \* CACHE_TIME + 1 (all that line 250 tells apart)
    ret,              \* outcome of the caller's latest call
    http,             \* remote requests issued by the caller's latest call
    elems,            \* Elements returned by the latest __getitem__ / add_element
    futures,          \* content futures in pool_content, keyed <<call, j>>
    it,               \* the generator of __iter__: its locals and position
    pagejobs,         \* page fetches submitted to pool_keys by the generator
    yielded,          \* Elements the generator has yielded so far
    threads,          \* threads inside _get_key: their position and locals
    pool_keys,        \* pool_keys: the jobs submitted, in order, and their state
    pool_content,     \* pool_content: the same
    main              \* the caller blocked on jobs of the pools

vars == <<server, next_id, mutations, ps, elements_count, page_cache,
          cache_age, ret, http, elems, futures, it, pagejobs, yielded,
          threads, pool_keys, pool_content, main>>

remote == <<server, next_id, mutations>>
cachev == <<page_cache, cache_age>>
iterv == <<it, pagejobs, yielded>>
poolv == <<pool_keys, pool_content, main>>
conc == <<threads, poolv>>
seqv == <<remote, ps, elements_count, cachev, ret, http, elems, futures, iterv>>

\* ------------------------------------------------------------- helpers
Min(a, b) == IF a < b THEN a ELSE b

SeqRange(s) == {s[k] : k \in 1..Len(s)}

\* The identifiers 1..n in order.
Iota(n) == [k \in 1..n |-> k]

EmptyMap == [x \in {} |-> 0]

\* All orderings of the finite set S.
Orderings(S) ==
    {f \in [1..Cardinality(S) -> S] : \A a, b \in 1..Cardinality(S) : f[a] = f[b] => a = b}

Filter(s, S) ==
    LET Keep(x) == x \in S IN SelectSeq(s, Keep)

RECURSIVE Flatten(_)
Flatten(ss) == IF ss = <<>> THEN <<>> ELSE Head(ss) \o Flatten(Tail(ss))

\* The outcome of a call: the operation, its argument, the error it raised
\* ("none": it returned), the identifiers it returned, and in `pre` what
\* held when it was called (see the calls that fill it).  `shape` tells
\* what __getitem__ handed back: a list of elements or one element.
RetPre(op, arg, err, val, pre) ==
    [op |-> op, arg |-> arg, err |-> err, val |-> val, pre |-> pre, shape |-> "none"]
Ret(op, arg, err, val) == RetPre(op, arg, err, val, <<>>)

PageReq(p) == [kind |-> "page", page |-> p, ids |-> <<>>]
BundleReq(ids) == [kind |-> "bundle", page |-> -1, ids |-> ids]
DatasetReq == [kind |-> "dataset", page |-> -1, ids |-> <<>>]
DeleteReq(id) == [kind |-> "delete", page |-> -1, ids |-> <<id>>]
ElementReq(id) == [kind |-> "element", page |-> -1, ids |-> <<id>>]
CreateReq == [kind |-> "create", page |-> -1, ids |-> <<>>]

\* ------------------------------------------------------------- the server
\* GET datasets/{prefix}/elements?page=p: the p-th chunk of Page-Size
\* identifiers of the list, empty beyond the end.
ServerPage(srv, size, p) == SubSeq(srv, p * size + 1, Min((p + 1) * size, Len(srv)))

\* GET datasets/{prefix}/elements/bundle: the metadata of the requested
\* elements that exist, in the server's own order `ord`.
BundleResponse(srv, ord, ids) == Filter(ord, SeqRange(ids) \cap SeqRange(srv))

\* ------------------------------------------------------------ _get_key
\* Elapsed ticks are counted up to CACHE_TIME + 1.
Older(age) == Min(age + 1, CACHE_TIME + 1)

\* _get_key storing the fetched page under the offset instead of the page
\* number.
GetKeyCachedUnderIndex(c, age, srv, size, key_index) ==
    LET key_page == key_index \div size
        index == key_index % size
        expired == age > CACHE_TIME
        c1 == IF expired THEN EmptyMap ELSE c
        hit == key_page \in DOMAIN c1
        page == IF hit THEN c1[key_page].ids ELSE ServerPage(srv, size, key_page)
        c2 == IF hit THEN c1
              ELSE [p \in DOMAIN c1 \cup {index} |->
                        IF p = index THEN [ids |-> page, age |-> 0] ELSE c1[p]]
    IN  [cache |-> c2,
         age |-> IF hit THEN age ELSE 0,
         fetched |-> IF hit THEN <<>> ELSE <<PageReq(key_page)>>,
         cleared |-> expired,
         err |-> IF index < Len(page) THEN "none" ELSE "IndexError",
         val |-> IF index < Len(page) THEN page[index + 1] ELSE 0]

\* _get_key without the clear of line 251.
GetKeyNoClear(c, age, srv, size, key_index) ==
    LET key_page == key_index \div size
        index == key_index % size
        hit == key_page \in DOMAIN c
        page == IF hit THEN c[key_page].ids ELSE ServerPage(srv, size, key_page)
        c2 == IF hit THEN c
              ELSE [p \in DOMAIN c \cup {key_page} |->
                        IF p = key_page THEN [ids |-> page, age |-> 0] ELSE c[p]]
    IN  [cache |-> c2,
         age |-> IF hit THEN age ELSE 0,
         fetched |-> IF hit THEN <<>> ELSE <<PageReq(key_page)>>,
         cleared |-> FALSE,
         err |-> IF index < Len(page) THEN "none" ELSE "IndexError",
         val |-> IF index < Len(page) THEN page[index + 1] ELSE 0]

\* One call of _get_key(key_index) on cache c, `age` ticks after the last
\* cache write (lines 244-261).  A cached page carries, beside the page, the
\* ticks since it was fetched.
GetKey(c, age, srv, size, key_index) ==
    LET key_page == key_index \div size
        index == key_index % size
        expired == age > CACHE_TIME
        c1 == IF expired THEN EmptyMap ELSE c
        hit == key_page \in DOMAIN c1
        page == IF hit THEN c1[key_page].ids ELSE ServerPage(srv, size, key_page)
        c2 == IF hit THEN c1
              ELSE [p \in DOMAIN c1 \cup {key_page} |->
                        IF p = key_page THEN [ids |-> page, age |-> 0] ELSE c1[p]]
    IN  [cache |-> c2,
         age |-> IF hit THEN age ELSE 0,
         fetched |-> IF hit THEN <<>> ELSE <<PageReq(key_page)>>,
         cleared |-> expired,
         err |-> IF index < Len(page) THEN "none" ELSE "IndexError",
         val |-> IF index < Len(page) THEN page[index + 1] ELSE 0]

\* [self._get_key(i) for i in indices] (line 175): the calls in order, each
\* on the cache the one before left, stopping at the first that raises.
KeysStart(c, age) ==
    [cache |-> c, age |-> age, fetched |-> <<>>, err |-> "none", ids |-> <<>>]

KeysStep(acc, r) ==
    [cache |-> r.cache, age |-> r.age, fetched |-> acc.fetched \o r.fetched,
     err |-> r.err,
     ids |-> IF r.err = "none" THEN Append(acc.ids, r.val) ELSE <<>>]

RECURSIVE GetKeysFrom(_, _, _, _)
GetKeysFrom(acc, srv, size, indices) ==
    IF indices = <<>> \/ acc.err # "none"
    THEN acc
    ELSE GetKeysFrom(KeysStep(acc, GetKey(acc.cache, acc.age, srv, size, Head(indices))),
                     srv, size, Tail(indices))

GetKeys(c, age, srv, size, indices) == GetKeysFrom(KeysStart(c, age), srv, size, indices)

\* --------------------------------------------------------------- refresh
\* refresh() leaving self.elements_count as it was.
RefreshedCountStale(srv, old) == old

\* refresh(): the count the server reports becomes self.elements_count.
RefreshedCount(srv, old) == Len(srv)

\* ----------------------------------------------------------- __getitem__
\* (NormalizeSliceFromZero: the same with `key.stop <= 0` at line 171.)
\* Lines 166-171: the defaults of step and stop, and the negative stop.
\* `key.stop < 0` is evaluated on the key's own stop: with the stop omitted
\* it compares None with 0, which raises TypeError.
NormalizeSliceFromZero(start, hasStop, stop, hasStep, step, len) ==
    LET step1 == IF hasStep THEN step ELSE 1
        stop1 == IF hasStop THEN stop ELSE len
    IN  IF ~hasStop
        THEN [err |-> "TypeError", start |-> start, stop |-> stop1, step |-> step1]
        ELSE [err |-> "none", start |-> start,
              stop |-> IF stop <= 0 THEN len - stop1 ELSE stop1,
              step |-> step1]

NormalizeSlice(start, hasStop, stop, hasStep, step, len) ==
    LET step1 == IF hasStep THEN step ELSE 1
        stop1 == IF hasStop THEN stop ELSE len
    IN  IF ~hasStop
        THEN [err |-> "TypeError", start |-> start, stop |-> stop1, step |-> step1]
        ELSE [err |-> "none", start |-> start,
              stop |-> IF stop < 0 THEN len - stop1 ELSE stop1,
              step |-> step1]

\* range(start, stop, step) for step >= 1.
PyRange(start, stop, step) ==
    LET n == IF stop > start THEN (stop - start + step - 1) \div step ELSE 0
    IN  [k \in 1..n |-> start + (k - 1) * step]

\* mldata.config.segments(l, n): the list cut into consecutive chunks of at
\* most n entries.
Segments(l, n) ==
    LET cnt == (Len(l) + n - 1) \div n
    IN  [k \in 1..cnt |-> SubSeq(l, (k - 1) * n + 1, Min(k * n, Len(l)))]

\* Line 177: what the job submitted for one segment is given as its identifier
\* list: pool_keys.submit(self._request_segment, ids).
SegmentJobArgument(ids, segment) == ids

NewFuture(ids) == [ids |-> ids, state |-> "pending", requests |-> 0]

Element(id, promise, call) == [id |-> id, promise |-> promise, call |-> call]

\* _request_segment submitting one content job per element.
RequestSegmentOwnFutures(srv, ord, ids, call) ==
    LET results == BundleResponse(srv, ord, ids)
    IN  [elements |-> [k \in 1..Len(results) |-> Element(results[k], <<call, k>>, call)],
         futures |-> [f \in {<<call, k>> : k \in 1..Len(results)} |-> NewFuture(ids)]]

\* _request_segment(ids), the call-th call: one bundle request, one content
\* job submitted to pool_content, and every element made from the response
\* gets that one future.
RequestSegment(srv, ord, ids, call) ==
    LET results == BundleResponse(srv, ord, ids)
    IN  [elements |-> [k \in 1..Len(results) |-> Element(results[k], <<call, 0>>, call)],
         futures |-> (<<call, 0>> :> NewFuture(ids))]

\* Lines 199-206 returning the list whenever there is an element.
GetItemOutcomeAlwaysList(elements) ==
    IF Len(elements) >= 1 THEN [err |-> "none", shape |-> "list"]
    ELSE [err |-> "KeyError", shape |-> "none"]

\* Lines 199-206: what __getitem__ does with the elements it fetched: the
\* list, the one element, or KeyError.
GetItemOutcome(elements) ==
    IF Len(elements) > 1 THEN [err |-> "none", shape |-> "list"]
    ELSE IF Len(elements) = 1 THEN [err |-> "none", shape |-> "element"]
    ELSE [err |-> "KeyError", shape |-> "none"]

\* The outcome of a __getitem__ that reached lines 199-206 with `elements`.
RetItem(op, arg, elements, val, pre) ==
    LET out == GetItemOutcome(elements)
    IN  [RetPre(op, arg, out.err, val, pre) EXCEPT !.shape = out.shape]

RECURSIVE MergeFutures(_, _)
MergeFutures(rs, calls) ==
    IF calls = {} THEN EmptyMap
    ELSE LET c == CHOOSE x \in calls : TRUE
         IN  rs[c].futures @@ MergeFutures(rs, calls \ {c})

\* What the bundle endpoint can do to the nseg segment jobs of one slice
\* access: answer all of them, listing the elements S in an order of its
\* own, or fail some of them.
BundleOutcomes(S, nseg) ==
    {[ord |-> o, failed |-> {}] : o \in Orderings(S)}
    \cup {[ord |-> CHOOSE o \in Orderings(S) : TRUE, failed |-> F] :
            F \in (SUBSET (1..nseg)) \ {{}}}

\* Lines 181-182 keeping the elements of the segment jobs that succeeded.
CollectResultsPartial(rs, nseg, failed) ==
    [err |-> "none",
     elements |-> Flatten([k \in 1..nseg |->
                             IF k \in failed THEN <<>> ELSE rs[k].elements])]

\* Lines 181-182: `elements += future.result()` over the segment jobs in the
\* order of submission; result() re-raises what a failed job raised, and
\* the elements gathered so far are lost with the frame.
CollectResults(rs, nseg, failed) ==
    IF failed # {}
    THEN [err |-> "RemoteError", elements |-> <<>>]
    ELSE [err |-> "none", elements |-> Flatten([k \in 1..nseg |-> rs[k].elements])]

ItNone == [pc |-> "none", number_of_pages |-> 0, page |-> 0, buffer |-> 0,
           buffer2 |-> 0, elements |-> <<>>, idx |-> 0, len0 |-> 0, mut0 |-> 0]

\* The caller holds nothing of an earlier call.  __getitem__, add_element
\* and iter() overwrite what the caller holds (the outcome, the elements,
\* their futures, a generator) and read none of it, so they are taken from
\* the state the caller reaches by letting go of it (Discard below): the
\* states they lead to are the same from either.
CallerFree == ret.op \in {"init", "discard"}

\* Lines 173-182 and 199-206, once the indices are resolved (r): the cache
\* is as the resolver left it; then one _request_segment job per segment,
\* and their elements concatenated in the order of submission.  `o.ord` is
\* the order the bundle endpoint lists elements in, `o.failed` the segment
\* jobs whose bundle request fails.  pre: how many segment jobs failed, and
\* how many there were.
SliceFetch(arg, r) ==
    /\ page_cache' = r.cache
    /\ cache_age' = r.age
    /\ IF r.err # "none"
       THEN /\ ret' = Ret("getitem", arg, r.err, <<>>)
            /\ http' = r.fetched
            /\ elems' = <<>>
            /\ futures' = EmptyMap
       ELSE LET segs == Segments(r.ids, ps)
                nseg == Len(segs)
                jobarg == [k \in 1..nseg |-> SegmentJobArgument(r.ids, segs[k])]
            IN  \E o \in BundleOutcomes(SeqRange(r.ids) \cap SeqRange(server), nseg) :
                  LET rs == [k \in 1..nseg |-> RequestSegment(server, o.ord, jobarg[k], k)]
                      c == CollectResults(rs, nseg, o.failed)
                      pre == <<Cardinality(o.failed), nseg>>
                  IN  /\ http' = r.fetched \o [k \in 1..nseg |-> BundleReq(jobarg[k])]
                      /\ futures' = MergeFutures(rs, (1..nseg) \ o.failed)
                      /\ elems' = c.elements
                      /\ ret' = IF c.err # "none"
                                THEN RetPre("getitem", arg, c.err, <<>>, pre)
                                ELSE RetItem("getitem", arg, c.elements, r.ids, pre)

\* ds[start:stop:step] (lines 165-182 and 199-206).
GetItemSlice(start, hasStop, stop, hasStep, step) ==
    /\ CallerFree
    /\ LET arg == [start |-> start, hasStop |-> hasStop, stop |-> stop,
                   step |-> IF hasStep THEN step ELSE 1]
           n == NormalizeSlice(start, hasStop, stop, hasStep, step, elements_count)
       IN  IF n.err # "none"
           THEN /\ ret' = Ret("getitem", arg, n.err, <<>>)
                /\ http' = <<>>
                /\ elems' = <<>>
                /\ futures' = EmptyMap
                /\ UNCHANGED cachev
           ELSE SliceFetch(arg, GetKeys(page_cache, cache_age, server, ps,
                                        PyRange(n.start, n.stop, n.step)))
    /\ it' = ItNone
    /\ pagejobs' = <<>>
    /\ yielded' = <<>>
    /\ UNCHANGED <<remote, ps, conc, elements_count>>

\* ds[i] with an index (a key shorter than 8 characters): lines 159-161 turn
\* it into the slice i:i+1:1.
GetItemIndex(i) == GetItemSlice(i, TRUE, i + 1, TRUE, 1)

\* What the remote does to GET datasets/{prefix}/elements/{id}: it answers
\* (the metadata, or Not-Found for an identifier it does not list), the
\* transport fails, or the response is malformed.
Responses == {"ok", "transport", "malformed"}

\* What lines 186-190 raise for the response.
RaisedById(srv, id, resp) ==
    IF resp = "transport" THEN "TransportError"
    ELSE IF resp = "malformed" THEN "MalformedResponse"
    ELSE IF id \notin SeqRange(srv) THEN "RemoteNotFound"
    ELSE "none"

\* The try block of lines 185-191 without the except clause.
GetByIdNoCatch(srv, id, resp) ==
    LET raised == RaisedById(srv, id, resp)
    IN  [raised |-> raised,
         err |-> raised,
         elements |-> IF raised = "none" THEN <<Element(id, <<1, 0>>, 1)>> ELSE <<>>]

\* Lines 185-194: the element fetched by identifier, with its own content
\* job; `except Exception` turns whatever was raised into no element.
GetById(srv, id, resp) ==
    LET raised == RaisedById(srv, id, resp)
    IN  [raised |-> raised,
         err |-> "none",
         elements |-> IF raised = "none" THEN <<Element(id, <<1, 0>>, 1)>> ELSE <<>>]

\* ds[id] with an identifier string (lines 184-194 and 199-206): one metadata
\* request; any failure leaves no element, which lines 203-204 report as
\* KeyError.  pre: what the request raised inside the try block.
GetItemId(id, resp) ==
    /\ CallerFree
    /\ LET g == GetById(server, id, resp)
       IN  /\ ret' = IF g.err # "none"
                      THEN RetPre("getitem_id", <<id>>, g.err, <<>>, <<g.raised>>)
                      ELSE RetItem("getitem_id", <<id>>, g.elements, <<>>, <<g.raised>>)
           /\ elems' = IF g.err # "none" THEN <<>> ELSE g.elements
           /\ futures' = IF g.raised = "none" THEN (<<1, 0>> :> NewFuture(<<id>>)) ELSE EmptyMap
    /\ http' = <<ElementReq(id)>>
    /\ it' = ItNone
    /\ pagejobs' = <<>>
    /\ yielded' = <<>>
    /\ UNCHANGED <<remote, ps, conc, elements_count, cachev>>

\* ------------------------------------------------- _get_key, keys, refresh
\* A direct _get_key(i) call.  pre: at the call, the ticks since the last
\* cache write, whether the page of i was in the cache (1) or not (0), the
\* number of pages in the cache, and the ticks since the page of i was
\* fetched (0 when it was not in the cache).
GetKeyCall(i) ==
    /\ it.pc \in {"none", "susp", "done"}
    /\ LET r == GetKey(page_cache, cache_age, server, ps, i)
       IN  /\ page_cache' = r.cache
           /\ cache_age' = r.age
           /\ http' = r.fetched
           /\ ret' = RetPre("get_key", <<i>>, r.err,
                            IF r.err = "none" THEN <<r.val>> ELSE <<>>,
                            <<cache_age,
                              IF (i \div ps) \in DOMAIN page_cache THEN 1 ELSE 0,
                              Cardinality(DOMAIN page_cache),
                              IF (i \div ps) \in DOMAIN page_cache
                              THEN page_cache[i \div ps].age ELSE 0>>)
    /\ UNCHANGED <<remote, ps, conc, elements_count, elems, futures, iterv>>

\* refresh() (lines 379-383).
Refresh ==
    /\ it.pc \in {"none", "susp", "done"}
    /\ elements_count' = RefreshedCount(server, elements_count)
    /\ http' = <<DatasetReq>>
    /\ ret' = Ret("refresh", <<>>, "none", <<>>)
    /\ UNCHANGED <<remote, ps, conc, cachev, elems, futures, iterv>>

\* del ds[id] (lines 208-210): the remote delete, then refresh().  A delete
\* the server rejects raises before refresh().  pre: len(ds) at the call.
DelItem(id) ==
    /\ it.pc \in {"none", "susp", "done"}
    /\ IF id \in SeqRange(server)
       THEN /\ mutations < MaxMutations
            /\ server' = Filter(server, SeqRange(server) \ {id})
            /\ mutations' = mutations + 1
            /\ elements_count' = RefreshedCount(server', elements_count)
            /\ http' = <<DeleteReq(id), DatasetReq>>
            /\ ret' = RetPre("delitem", <<id>>, "none", <<>>, <<elements_count>>)
       ELSE /\ http' = <<DeleteReq(id)>>
            /\ ret' = Ret("delitem", <<id>>, "RemoteError", <<>>)
            /\ UNCHANGED <<server, mutations, elements_count>>
    /\ UNCHANGED <<next_id, ps, conc, cachev, elems, futures, iterv>>

\* add_element creating the remote record before it looks at the content.
AddElementPostsFirst(fileExists) ==
    /\ CallerFree
    /\ mutations < MaxMutations
    /\ server' = Append(server, next_id)
    /\ next_id' = next_id + 1
    /\ mutations' = mutations + 1
    /\ IF ~fileExists
       THEN /\ ret' = Ret("add_element", <<>>, "Exception", <<>>)
            /\ http' = <<CreateReq>>
            /\ UNCHANGED <<elements_count, elems, futures, iterv>>
       ELSE /\ elements_count' = RefreshedCount(server', elements_count)
            /\ http' = <<CreateReq, DatasetReq, ElementReq(next_id)>>
            /\ elems' = <<Element(next_id, <<1, 0>>, 1)>>
            /\ futures' = (<<1, 0>> :> NewFuture(<<next_id>>))
            /\ ret' = Ret("add_element", <<>>, "none", <<next_id>>)
            /\ it' = ItNone
            /\ pagejobs' = <<>>
            /\ yielded' = <<>>
    /\ UNCHANGED <<ps, conc, cachev>>

\* add_element(..., content) (lines 104-130).  fileExists: content is a
\* string naming an existing file, or bytes (TRUE), or a string naming no
\* file (FALSE).
AddElement(fileExists) ==
    /\ CallerFree
    /\ IF ~fileExists
       THEN /\ ret' = Ret("add_element", <<>>, "Exception", <<>>)
            /\ http' = <<>>
            /\ UNCHANGED <<remote, elements_count, elems, futures, iterv>>
       ELSE /\ mutations < MaxMutations
            /\ server' = Append(server, next_id)
            /\ next_id' = next_id + 1
            /\ mutations' = mutations + 1
            /\ elements_count' = RefreshedCount(server', elements_count)
            /\ http' = <<CreateReq, DatasetReq, ElementReq(next_id)>>
            /\ elems' = <<Element(next_id, <<1, 0>>, 1)>>
            /\ futures' = (<<1, 0>> :> NewFuture(<<next_id>>))
            /\ ret' = Ret("add_element", <<>>, "none", <<next_id>>)
            /\ it' = ItNone
            /\ pagejobs' = <<>>
            /\ yielded' = <<>>
    /\ UNCHANGED <<ps, conc, cachev>>

\* A tick of the clock: now() moves on, and with it the age of the cache
\* and of every cached page.
Tick ==
    /\ cache_age' = Older(cache_age)
    /\ page_cache' = [p \in DOMAIN page_cache |->
                         [page_cache[p] EXCEPT !.age = Older(@)]]
    /\ UNCHANGED <<remote, ps, conc, elements_count, ret, http, elems, futures, iterv>>

\* -------------------------------------------------------------- __iter__
\* The page count without the partial last page.
NumberOfPagesFloor(len, size) == len \div size

\* Line 223: len(self) // ps + int(len(self) % ps > 0).
NumberOfPages(len, size) == len \div size + (IF len % size > 0 THEN 1 ELSE 0)

NewPageJob(p) == [page |-> p, state |-> "pending", val |-> <<>>]

\* Lines 229-232: the fetches submitted to pool_keys at the head of the loop
\* body for `page`: the page itself when nothing was prefetched, and always
\* page + 1.
PagesSubmitted(page, buffer) ==
    IF buffer = 0 THEN <<page, page + 1>> ELSE <<page + 1>>

\* iter(ds) and the first next(): the generator's body starts (lines 222-225).
IterStart ==
    /\ CallerFree
    /\ it' = [ItNone EXCEPT !.pc = "loop",
                            !.number_of_pages = NumberOfPages(elements_count, ps),
                            !.len0 = elements_count,
                            !.mut0 = mutations]
    /\ pagejobs' = <<>>
    /\ yielded' = <<>>
    /\ elems' = <<>>
    /\ futures' = EmptyMap
    /\ http' = <<>>
    /\ ret' = Ret("iter", <<>>, "none", <<>>)
    /\ UNCHANGED <<remote, ps, conc, elements_count, cachev>>

\* The head of `for page in range(number_of_pages)` (lines 227-232): the
\* loop ends, or the page fetches are submitted.
IterLoop ==
    /\ it.pc = "loop"
    /\ IF it.page < it.number_of_pages
       THEN LET sub == PagesSubmitted(it.page, it.buffer)
                n == Len(pagejobs)
            IN  /\ pagejobs' = pagejobs \o [k \in 1..Len(sub) |-> NewPageJob(sub[k])]
                /\ it' = [it EXCEPT !.pc = "wait",
                                    !.buffer = IF it.buffer = 0 THEN n + 1 ELSE it.buffer,
                                    !.buffer2 = n + Len(sub)]
       ELSE /\ it' = [it EXCEPT !.pc = "done"]
            /\ pagejobs' = pagejobs
    /\ UNCHANGED <<remote, ps, conc, elements_count, cachev, ret, http, elems,
                   futures, yielded>>

\* What the generator does once the elements of a page are at hand or one
\* of them has been consumed: yield the next one, or leave the inner loop
\* (line 242) for the head of the outer one.
IterAdvance(g, elements, idx) ==
    IF idx < Len(elements)
    THEN [g EXCEPT !.pc = "susp", !.elements = elements, !.idx = idx + 1]
    ELSE [g EXCEPT !.pc = "loop", !.elements = <<>>, !.idx = 0,
                   !.buffer = g.buffer2, !.buffer2 = 0, !.page = g.page + 1]

\* The future the elements of page `page` get (line 236): one job for the
\* identifiers of the page's elements.
PageContentFuture(page, elements) == (<<page, 0>> :> NewFuture(elements))

IterYielded(g, elements, idx) ==
    IF idx < Len(elements)
    THEN <<Element(elements[idx + 1], <<g.page, 0>>, g.page)>>
    ELSE <<>>

\* Lines 234-240: buffer.result() returns, the content job of the page is
\* submitted, and the first element of the page is yielded.
IterWait ==
    /\ it.pc = "wait"
    /\ pagejobs[it.buffer].state = "done"
    /\ LET elements == pagejobs[it.buffer].val
       IN  /\ futures' = PageContentFuture(it.page, elements) @@ futures
           /\ yielded' = yielded \o IterYielded(it, elements, 0)
           /\ it' = IterAdvance(it, elements, 0)
    /\ UNCHANGED <<remote, ps, conc, elements_count, cachev, ret, http, elems, pagejobs>>

\* next() on the suspended generator: the next element of the page, or on
\* to the next page.
IterResume ==
    /\ it.pc = "susp"
    /\ yielded' = yielded \o IterYielded(it, it.elements, it.idx)
    /\ it' = IterAdvance(it, it.elements, it.idx)
    /\ UNCHANGED <<remote, ps, conc, elements_count, cachev, ret, http, elems,
                   futures, pagejobs>>

\* A pool_keys worker runs _get_elements(page) (lines 212-215).
RunPageFetch(j) ==
    /\ pagejobs[j].state = "pending"
    /\ pagejobs' = [pagejobs EXCEPT ![j] = [state |-> "done", page |-> pagejobs[j].page,
                                         val |-> ServerPage(server, ps, pagejobs[j].page)]]
    /\ UNCHANGED <<remote, ps, conc, elements_count, cachev, ret, http, elems,
                   futures, it, yielded>>

\* ------------------------------------------------------- content futures
\* The content job raising into the call that submitted it.
RunContentFailsCaller(f, ok) ==
    /\ futures[f].state = "pending"
    /\ futures' = [futures EXCEPT ![f] = [@ EXCEPT !.state = IF ok THEN "done" ELSE "failed",
                                                  !.requests = @ + 1]]
    /\ ret' = IF ok THEN ret ELSE [ret EXCEPT !.err = "RemoteError", !.shape = "none"]
    /\ elems' = IF ok THEN elems ELSE <<>>
    /\ yielded' = IF ok THEN yielded ELSE <<>>
    /\ UNCHANGED <<remote, ps, conc, elements_count, cachev, http, it, pagejobs>>

\* A pool_content worker runs _retrieve_segment_contents(ids) (lines
\* 151-156): the one bundled content request of the future; it succeeds or
\* raises, and the future keeps the outcome.
RunContent(f, ok) ==
    /\ futures[f].state = "pending"
    /\ futures' = [futures EXCEPT ![f] = [@ EXCEPT !.state = IF ok THEN "done" ELSE "failed",
                                                  !.requests = @ + 1]]
    /\ UNCHANGED <<remote, ps, conc, elements_count, cachev, ret, http, elems, iterv>>

\* What content_promise.result() and the pick of the element's own entry
\* give for a finished future: the job's error, the content, or
\* Content-Missing.
DerefOutcome(future, id) ==
    IF future.state = "failed" THEN "RemoteError"
    ELSE IF id \in SeqRange(future.ids) THEN "none"
    ELSE "ContentMissing"

\* Element.get_content() on an element the caller holds: it blocks on
\* content_promise.result() and picks the element's own entry.  arg: the
\* element's identifier and its future.  pre: 1 for a first dereference, 2
\* when the call before was a dereference too.
Deref(e) ==
    /\ it.pc \in {"none", "susp", "done"}
    /\ futures[e.promise].state # "pending"
    /\ ret' = RetPre("get_content", <<e.id, e.promise>>,
                     DerefOutcome(futures[e.promise], e.id),
                     <<>>,
                     <<IF ret.op = "get_content" THEN 2 ELSE 1>>)
    /\ http' = <<>>
    /\ UNCHANGED <<remote, ps, conc, elements_count, cachev, elems, futures, iterv>>

\* The caller lets go of the outcome of its latest call, of the elements it
\* holds and of the generator; the content futures go with the elements
\* that referred to them.
Discard ==
    /\ it.pc \in {"none", "susp", "done"}
    /\ ~CallerFree
    /\ elems' = <<>>
    /\ futures' = EmptyMap
    /\ it' = ItNone
    /\ pagejobs' = <<>>
    /\ yielded' = <<>>
    /\ ret' = Ret("discard", <<>>, "none", <<>>)
    /\ http' = <<>>
    /\ UNCHANGED <<remote, ps, conc, elements_count, cachev>>

\* ------------------------------------------- _get_key, thread by thread
\* _get_key as several threads run it: each step below is one access to
\* the shared self.page_cache / self.last_cache_time (a dictionary or
\* attribute operation, atomic under the interpreter lock) or the remote
\* request, and the steps of different threads interleave freely.  The
\* races of _get_key are between two threads: one that holds a page or is
\* about to write one, and one that clears, misses or writes meanwhile.
Threads == {1, 2}

ThreadIdle == [pc |-> "idle", key_index |-> 0, page |-> <<>>, fetches |-> 0,
               err |-> "none", val |-> 0]

\* Line 261 reading the page back from the shared cache.
ReturnedPageFromCache(page, c, key_page) ==
    IF key_page \in DOMAIN c
    THEN [err |-> "none", ids |-> c[key_page].ids]
    ELSE [err |-> "KeyError", ids |-> <<>>]

\* Line 261: `page` is the thread's local variable, bound at line 253 or 257.
ReturnedPage(page, c, key_page) == [err |-> "none", ids |-> page]

\* A thread enters _get_key(i) (lines 245-247) and compares the time since
\* the last cache write with CACHE_TIME (line 250).
ThreadCall(t, i) ==
    /\ threads[t].pc \in {"idle", "returned"}
    /\ threads' = [threads EXCEPT ![t] =
                      [ThreadIdle EXCEPT !.key_index = i,
                                         !.pc = IF cache_age > CACHE_TIME THEN "clear"
                                                ELSE "lookup"]]
    /\ UNCHANGED <<remote, ps, elements_count, cachev, ret, http, elems, futures,
                   iterv, poolv>>

\* Line 251: self.page_cache.clear().
ThreadClear(t) ==
    /\ threads[t].pc = "clear"
    /\ page_cache' = EmptyMap
    /\ threads' = [threads EXCEPT ![t].pc = "lookup"]
    /\ UNCHANGED <<remote, ps, elements_count, cache_age, ret, http, elems, futures,
                   iterv, poolv>>

\* Line 253: page = self.page_cache[key_page]; a KeyError leads to line 257.
ThreadLookup(t) ==
    /\ threads[t].pc = "lookup"
    /\ LET key_page == threads[t].key_index \div ps
       IN  threads' = IF key_page \in DOMAIN page_cache
                      THEN [threads EXCEPT ![t].pc = "return",
                                           ![t].page = page_cache[key_page].ids]
                      ELSE [threads EXCEPT ![t].pc = "fetch"]
    /\ UNCHANGED <<remote, ps, elements_count, cachev, ret, http, elems, futures,
                   iterv, poolv>>

\* Line 257: the page request.
ThreadFetch(t) ==
    /\ threads[t].pc = "fetch"
    /\ threads' = [threads EXCEPT ![t].pc = "store",
                                  ![t].page = ServerPage(server, ps, threads[t].key_index \div ps),
                                  ![t].fetches = @ + 1]
    /\ UNCHANGED <<remote, ps, elements_count, cachev, ret, http, elems, futures,
                   iterv, poolv>>

\* Line 258: self.page_cache[key_page] = page.
ThreadStore(t) ==
    /\ threads[t].pc = "store"
    /\ LET key_page == threads[t].key_index \div ps
       IN  page_cache' = [p \in DOMAIN page_cache \cup {key_page} |->
                             IF p = key_page THEN [ids |-> threads[t].page, age |-> 0]
                             ELSE page_cache[p]]
    /\ threads' = [threads EXCEPT ![t].pc = "stamp"]
    /\ UNCHANGED <<remote, ps, elements_count, cache_age, ret, http, elems, futures,
                   iterv, poolv>>

\* Line 259: self.last_cache_time = now().
ThreadStamp(t) ==
    /\ threads[t].pc = "stamp"
    /\ cache_age' = 0
    /\ threads' = [threads EXCEPT ![t].pc = "return"]
    /\ UNCHANGED <<remote, ps, elements_count, page_cache, ret, http, elems, futures,
                   iterv, poolv>>

\* Line 261: return page[index]['_id'].
ThreadReturn(t) ==
    /\ threads[t].pc = "return"
    /\ LET index == threads[t].key_index % ps
           got == ReturnedPage(threads[t].page, page_cache, threads[t].key_index \div ps)
           err == IF got.err # "none" THEN got.err
                  ELSE IF index < Len(got.ids) THEN "none" ELSE "IndexError"
       IN  threads' = [threads EXCEPT ![t].pc = "returned",
                                      ![t].page = <<>>,
                                      ![t].err = err,
                                      ![t].val = IF err = "none" THEN got.ids[index + 1] ELSE 0]
    /\ UNCHANGED <<remote, ps, elements_count, cachev, ret, http, elems, futures,
                   iterv, poolv>>

\* ------------------------------------------- pool_keys and pool_content
\* The two executors as their workers see them.  A pool is the list of the
\* jobs submitted to it, in order; a job is queued, then running on one of
\* the pool's workers, then done or failed.  Workers take queued jobs in the
\* order of submission.  A content job that has ended is "ended": whether it
\* returned or raised stays in its future and changes nothing in the pools.
NewJob(kind) == [kind |-> kind, state |-> "queued"]

Final == {"done", "failed", "ended"}

Running(pool) == Cardinality({j \in 1..Len(pool) : pool[j].state = "running"})

Unfinished(pool) == Cardinality({j \in 1..Len(pool) : pool[j].state \notin Final})

\* A worker is free and j is the first job waiting.
CanStart(pool, j, workers) ==
    /\ pool[j].state = "queued"
    /\ \A i \in 1..(j - 1) : pool[i].state # "queued"
    /\ Running(pool) < workers

\* A pool_keys job blocking on the job submitted after it.
TaskWaitsForNext(pool, j) == IF j < Len(pool) THEN {j + 1} ELSE {}

\* The jobs of its own pool a running pool_keys job waits for:
\* _request_segment (lines 132-149) and _get_elements (lines 212-215) call
\* result() on no future; _request_segment only submits to pool_content.
TaskWaitsFor(pool, j) == {}

\* The caller: the call it is in, its position, and its locals.  first: the
\* number of pool_keys jobs before those of this call.
MainIdle == [pc |-> "idle", op |-> "none", n |-> 0, k |-> 0, first |-> 0,
             page |-> 0, buffer |-> 0, buffer2 |-> 0, err |-> "none"]

\* ds[0:len(ds)]: the identifiers are resolved in the caller's thread (line
\* 175); then one job per segment is to be submitted (line 177).
PoolSliceStart ==
    /\ main.pc = "idle"
    /\ main' = [main EXCEPT !.pc = "submit", !.op = "slice",
                            !.n = Len(Segments(SubSeq(server, 1, elements_count), ps)),
                            !.first = Len(pool_keys)]
    /\ UNCHANGED <<seqv, threads, pool_keys, pool_content>>

\* Line 177, one submit at a time: pool_keys.submit(self._request_segment, ids).
PoolSubmitSegment ==
    /\ main.pc = "submit"
    /\ pool_keys' = Append(pool_keys, NewJob("segment"))
    /\ main' = [main EXCEPT !.k = IF main.k + 1 = main.n THEN 0 ELSE main.k + 1,
                            !.pc = IF main.k + 1 = main.n THEN "collect" ELSE "submit"]
    /\ UNCHANGED <<seqv, threads, pool_content>>

\* Lines 181-182 and 199-206: future.result() on the segment jobs in the
\* order of submission; it returns once the job has finished and re-raises
\* what a failed job raised.
PoolCollect ==
    /\ main.pc = "collect"
    /\ LET j == main.first + main.k + 1
       IN  /\ pool_keys[j].state \in Final
           /\ main' = IF pool_keys[j].state = "failed"
                      THEN [main EXCEPT !.pc = "returned", !.err = "RemoteError"]
                      ELSE IF main.k + 1 = main.n
                      THEN [main EXCEPT !.pc = "returned", !.k = main.n]
                      ELSE [main EXCEPT !.k = main.k + 1]
    /\ UNCHANGED <<seqv, threads, pool_keys, pool_content>>

\* iter(ds) and the first next() (lines 222-225).
PoolIterStart ==
    /\ main.pc = "idle"
    /\ main' = [main EXCEPT !.pc = "iloop", !.op = "iter",
                            !.n = NumberOfPages(elements_count, ps),
                            !.first = Len(pool_keys)]
    /\ UNCHANGED <<seqv, threads, pool_keys, pool_content>>

\* Lines 227-232: the loop ends, or the page fetches are submitted.
PoolIterLoop ==
    /\ main.pc = "iloop"
    /\ IF main.page < main.n
       THEN LET sub == PagesSubmitted(main.page, main.buffer)
                len == Len(pool_keys)
            IN  /\ pool_keys' = pool_keys \o [k \in 1..Len(sub) |-> NewJob("page")]
                /\ main' = [main EXCEPT !.pc = "iwait",
                                        !.buffer = IF main.buffer = 0 THEN len + 1 ELSE main.buffer,
                                        !.buffer2 = len + Len(sub)]
       ELSE /\ main' = [main EXCEPT !.pc = "returned"]
            /\ pool_keys' = pool_keys
    /\ UNCHANGED <<seqv, threads, pool_content>>

\* Lines 234-236: buffer.result() returns the page or re-raises; then the
\* content job of the page is submitted and its elements are yielded.
PoolIterWait ==
    /\ main.pc = "iwait"
    /\ pool_keys[main.buffer].state \in Final
    /\ IF pool_keys[main.buffer].state = "failed"
       THEN /\ main' = [main EXCEPT !.pc = "returned", !.err = "RemoteError"]
            /\ pool_content' = pool_content
       ELSE /\ main' = [main EXCEPT !.pc = "isusp"]
            /\ pool_content' = Append(pool_content, NewJob("content"))
    /\ UNCHANGED <<seqv, threads, pool_keys>>

\* Lines 238-242: the caller has consumed the elements of the page and asks
\* for the next one.
PoolIterNext ==
    /\ main.pc = "isusp"
    /\ main' = [main EXCEPT !.pc = "iloop", !.buffer = main.buffer2, !.buffer2 = 0,
                            !.page = main.page + 1]
    /\ UNCHANGED <<seqv, threads, pool_keys, pool_content>>

\* A pool_keys worker takes the next job.
KeysJobStart(j) ==
    /\ CanStart(pool_keys, j, KeysWorkers)
    /\ pool_keys' = [pool_keys EXCEPT ![j].state = "running"]
    /\ UNCHANGED <<seqv, threads, pool_content, main>>

\* A pool_keys job ends: its request returned (ok) or raised.  A segment
\* job whose bundle request returned has submitted its content job (line
\* 144) before it returns.
KeysJobEnd(j, ok) ==
    /\ pool_keys[j].state = "running"
    /\ \A w \in TaskWaitsFor(pool_keys, j) : pool_keys[w].state \in Final
    /\ pool_keys' = [pool_keys EXCEPT ![j].state = IF ok THEN "done" ELSE "failed"]
    /\ pool_content' = IF ok /\ pool_keys[j].kind = "segment"
                       THEN Append(pool_content, NewJob("content"))
                       ELSE pool_content
    /\ UNCHANGED <<seqv, threads, main>>

\* A pool_content worker takes the next job.
ContentJobStart(j) ==
    /\ CanStart(pool_content, j, ContentWorkers)
    /\ pool_content' = [pool_content EXCEPT ![j].state = "running"]
    /\ UNCHANGED <<seqv, threads, pool_keys, main>>

\* _retrieve_segment_contents (lines 151-156) ends, returning or raising:
\* one request, no wait on any job.
ContentJobEnd(j) ==
    /\ pool_content[j].state = "running"
    /\ pool_content' = [pool_content EXCEPT ![j].state = "ended"]
    /\ UNCHANGED <<seqv, threads, pool_keys, main>>

\* ------------------------------------------------------------------ Init
\* After construction (lines 41-44 and 100-101): an empty page cache stamped
\* now(); the count is 0 (__init__) or the server's (from_dict).
Init ==
    /\ \E n \in 0..MaxElems :
         /\ server = Iota(n)
         /\ next_id = n + 1
         /\ elements_count \in {0, n}
    /\ mutations = 0
    /\ ps \in 1..MaxPageSize
    /\ page_cache = EmptyMap
    /\ cache_age = 0
    /\ ret = Ret("init", <<>>, "none", <<>>)
    /\ http = <<>>
    /\ elems = <<>>
    /\ futures = EmptyMap
    /\ it = ItNone
    /\ pagejobs = <<>>
    /\ yielded = <<>>
    /\ threads = [t \in Threads |-> ThreadIdle]
    /\ pool_keys = <<>>
    /\ pool_content = <<>>
    /\ main = MainIdle

\* The keys a caller passes: a start index, a stop (or none), a step (or none).
Indices == 0..MaxElems
Stops == -1..MaxElems
Steps == {1, 2}
SliceKeys ==
    {k \in [start : Indices, hasStop : BOOLEAN, stop : Stops,
            hasStep : BOOLEAN, step : Steps] :
        /\ ~k.hasStop => k.stop = 0
        /\ ~k.hasStep => k.step = 1}
Ids == 1..(MaxElems + MaxMutations)

\* The caller's accesses by slice, index and identifier, and the content
\* jobs behind the elements they return.
NextAccess ==
    \/ \E k \in SliceKeys : GetItemSlice(k.start, k.hasStop, k.stop, k.hasStep, k.step)
    \/ \E i \in Indices : GetItemIndex(i)
    \/ \E id \in Ids, resp \in Responses : GetItemId(id, resp)
    \/ \E f \in DOMAIN futures, ok \in BOOLEAN : RunContent(f, ok)
    \/ \E e \in SeqRange(elems) \cup SeqRange(yielded) : Deref(e)

\* The key resolver, the mutations and the clock.
NextCache ==
    \/ \E i \in Indices : GetKeyCall(i)
    \/ Refresh
    \/ \E id \in Ids : DelItem(id)
    \/ \E fileExists \in BOOLEAN : AddElement(fileExists)
    \/ Tick

\* Iteration and the pool_keys jobs behind it.
NextIter ==
    \/ IterStart
    \/ IterLoop
    \/ IterWait
    \/ IterResume
    \/ \E j \in 1..Len(pagejobs) : RunPageFetch(j)

\* A dataset built with from_dict: its count is the server's.
InitThreads == Init /\ elements_count = Len(server)

\* Threads in _get_key on an unchanging dataset, and the clock.
NextThreads ==
    \/ \E t \in Threads, i \in Indices : ThreadCall(t, i)
    \/ \E t \in Threads : ThreadClear(t)
    \/ \E t \in Threads : ThreadLookup(t)
    \/ \E t \in Threads : ThreadFetch(t)
    \/ \E t \in Threads : ThreadStore(t)
    \/ \E t \in Threads : ThreadStamp(t)
    \/ \E t \in Threads : ThreadReturn(t)
    \/ Tick

\* A dataset large enough for more segments than a pool has workers, built
\* with from_dict.
InitPool ==
    /\ \E n \in 1..MaxPoolElems :
         /\ server = Iota(n)
         /\ next_id = n + 1
         /\ elements_count = n
    /\ mutations = 0
    /\ ps \in 1..MaxPageSize
    /\ page_cache = EmptyMap
    /\ cache_age = 0
    /\ ret = Ret("init", <<>>, "none", <<>>)
    /\ http = <<>>
    /\ elems = <<>>
    /\ futures = EmptyMap
    /\ it = ItNone
    /\ pagejobs = <<>>
    /\ yielded = <<>>
    /\ threads = [t \in Threads |-> ThreadIdle]
    /\ pool_keys = <<>>
    /\ pool_content = <<>>
    /\ main = MainIdle

\* The caller's own progress inside a call: submitting, and returning from
\* result() once the job has finished.
MainRun == PoolSubmitSegment \/ PoolCollect \/ PoolIterLoop \/ PoolIterWait

KeysWorker ==
    \/ \E j \in 1..Len(pool_keys) : KeysJobStart(j)
    \/ \E j \in 1..Len(pool_keys), ok \in BOOLEAN : KeysJobEnd(j, ok)

ContentWorker ==
    \/ \E j \in 1..Len(pool_content) : ContentJobStart(j)
    \/ \E j \in 1..Len(pool_content) : ContentJobEnd(j)

\* One slice access or one iteration, and the workers of the two pools.
NextPool ==
    \/ PoolSliceStart
    \/ PoolIterStart
    \/ PoolIterNext
    \/ MainRun
    \/ KeysWorker
    \/ ContentWorker

Next == NextAccess \/ NextCache \/ NextIter \/ Discard

Spec == Init /\ [][Next]_vars

\* The same program with the caller restricted to one family of calls.
\* Accesses reach every cache state the resolver can build at one instant;
\* SpecCache adds the clock and the mutations; SpecIter has the generator
\* with a caller that deletes and refreshes between its steps; SpecContent
\* has the accesses and the generator with the content jobs behind both.
SpecAccess == Init /\ [][NextAccess \/ Discard]_vars
SpecCache == Init /\ [][NextCache \/ Discard]_vars
\* The pools with their scheduling: a worker that can take or end a job
\* eventually does (every remote call returns or fails), and a caller that
\* can go on inside its call does.  Whether the caller asks a suspended
\* generator for more is up to the caller.
SpecPool ==
    /\ InitPool /\ [][NextPool]_vars
    /\ WF_vars(KeysWorker) /\ WF_vars(ContentWorker) /\ WF_vars(MainRun)
SpecThreads == InitThreads /\ [][NextThreads]_vars
SpecContent == Init /\ [][NextAccess \/ NextIter \/ Discard]_vars
SpecIter ==
    Init /\ [][NextIter \/ Discard \/ Refresh \/ (\E id \in Ids : DelItem(id))
               \/ (\E f \in DOMAIN futures, ok \in BOOLEAN : RunContent(f, ok))]_vars

\* ================================================================ claims
ElemIds(es) == [k \in 1..Len(es) |-> es[k].id]

IsBundle(q) == q.kind = "bundle"
Bundles == SelectSeq(http, IsBundle)

SliceDone == ret.op = "getitem" /\ ret.err = "none"

\* C1: a slice ds[a:b] with 0 <= a < b <= length and step 1 returns exactly
\* b - a elements, the k-th with the identifier of logical index a + k,
\* whatever the page size, the number of segments and the order of the
\* bundle response.
C1_SliceInIndexOrder ==
    (/\ SliceDone
     /\ ret.arg.hasStop /\ ret.arg.step = 1
     /\ 0 <= ret.arg.start /\ ret.arg.start < ret.arg.stop
     /\ ret.arg.stop <= Len(server))
    => /\ Len(elems) = ret.arg.stop - ret.arg.start
       /\ \A k \in 1..Len(elems) : elems[k].id = server[ret.arg.start + k]

\* C2: in a slice access every bundle call and every content call carries at
\* most Page-Size identifiers, and every requested identifier is sent in
\* exactly one bundle call and exactly one content call.
C2_SegmentsPartitionIds ==
    SliceDone =>
        /\ \A k \in 1..Len(Bundles) : Len(Bundles[k].ids) <= ps
        /\ \A f \in DOMAIN futures : Len(futures[f].ids) <= ps
        /\ \A x \in SeqRange(ret.val) :
             /\ Cardinality({k \in 1..Len(Bundles) : x \in SeqRange(Bundles[k].ids)}) = 1
             /\ Cardinality({f \in DOMAIN futures : x \in SeqRange(futures[f].ids)}) = 1

KeyIndex == ret.arg[1]

\* The identifier a direct page fetch gives for index i: page i div
\* Page-Size, offset i mod Page-Size.
DirectFetch(i) ==
    LET page == ServerPage(server, ps, i \div ps) IN page[(i % ps) + 1]

\* C3: while the server's element list has not changed, _get_key(i) for
\* 0 <= i < length returns the identifier a direct page fetch gives at page
\* i div Page-Size, offset i mod Page-Size, after any earlier resolves and
\* any passage of time.
C3_ResolveMatchesPageFetch ==
    (mutations = 0 /\ ret.op = "get_key" /\ KeyIndex < Len(server))
    => /\ ret.err = "none"
       /\ ret.val = <<DirectFetch(KeyIndex)>>

\* C3's case: an index beyond the first answered from the cache, some time
\* after the page was fetched.
C3_Witness ==
    /\ mutations = 0 /\ ret.op = "get_key" /\ ret.err = "none"
    /\ KeyIndex >= 1 /\ KeyIndex < Len(server)
    /\ http = <<>> /\ ret.pre[1] = CACHE_TIME /\ ret.pre[2] = 1

\* C4: after __delitem__ or add_element has returned, _get_key(i) for every
\* 0 <= i < len(ds) returns the identifier the server now lists at index i,
\* also when the page of i was cached before the mutation and the
\* time-to-live has not elapsed.
C4_MutationInvalidatesCache ==
    (/\ mutations > 0 /\ ret.op = "get_key"
     /\ elements_count = Len(server) /\ KeyIndex < elements_count)
    => /\ ret.err = "none"
       /\ ret.val = <<server[KeyIndex + 1]>>

\* C5: a _get_key call made more than CACHE_TIME after the last cache write
\* fetches the requested page afresh, also when it was cached, and leaves
\* in the cache that page alone, as the server lists it.
C5_ExpiryClearsAndRefetches ==
    (ret.op = "get_key" /\ ret.pre[1] > CACHE_TIME)
    => LET p == KeyIndex \div ps
       IN  /\ http = <<PageReq(p)>>
           /\ DOMAIN page_cache = {p}
           /\ page_cache[p].ids = ServerPage(server, ps, p)
           /\ page_cache[p].age = cache_age

\* C5's case: the cache had expired with the requested page and another one
\* in it.
C5_Witness ==
    /\ ret.op = "get_key" /\ ret.err = "none"
    /\ ret.pre[1] > CACHE_TIME /\ ret.pre[2] = 1 /\ ret.pre[3] >= 2
    /\ Cardinality(DOMAIN page_cache) = 1

IsEmptySlice == ret.op = "getitem" /\ ret.arg.hasStop /\ ret.arg.start = 0 /\ ret.arg.stop = 0

\* C6 as stated: ds[0:0] on a dataset of length n > 0 yields the elements of
\* ds[0:n].
C6_EmptySliceIsWholeDataset ==
    (IsEmptySlice /\ elements_count = Len(server) /\ Len(server) > 0)
    => /\ ret.err = "none"
       /\ ElemIds(elems) = server

\* C6 as amended: ds[0:0] resolves no index and issues no remote request; it
\* yields no element and fails with KeyError (Not-Found).
C6_EmptySliceNotFound ==
    IsEmptySlice =>
        /\ ret.err = "KeyError"
        /\ elems = <<>>
        /\ http = <<>>
        /\ DOMAIN futures = {}

C6_Witness ==
    /\ IsEmptySlice /\ ret.err = "KeyError"
    /\ elements_count = Len(server) /\ Len(server) > 0

\* C7: ds[a:] with 0 <= a < length, stop (and step) omitted, completes
\* without error and returns the elements of logical indices a..length-1.
C7_OpenSliceReturnsTail ==
    (/\ ret.op = "getitem" /\ ~ret.arg.hasStop
     /\ elements_count = Len(server) /\ ret.arg.start < Len(server))
    => /\ ret.err = "none"
       /\ ElemIds(elems) = SubSeq(server, ret.arg.start + 1, Len(server))

\* C8: after __delitem__(id) has returned, len(ds) is the element count the
\* server reports after the deletion.
C8_DeleteRefreshesCount ==
    (ret.op = "delitem" /\ ret.err = "none") => elements_count = Len(server)

\* C8's case: the count cached before the delete was the server's, and is
\* not the count after it.
C8_Witness ==
    /\ ret.op = "delitem" /\ ret.err = "none"
    /\ ret.pre[1] = Len(server) + 1
    /\ elements_count # ret.pre[1]

\* C9: the elements one _request_segment call returns share one content
\* future, and the bundled content request behind a future is issued once:
\* never before the job runs, once from then on, however often its elements
\* are dereferenced.
C9_OneSharedContentRequest ==
    /\ \A a, b \in 1..Len(elems) :
         elems[a].call = elems[b].call => elems[a].promise = elems[b].promise
    /\ \A k \in 1..Len(elems) : elems[k].promise \in DOMAIN futures
    /\ \A f \in DOMAIN futures :
         futures[f].requests = IF futures[f].state = "pending" THEN 0 ELSE 1

\* C9's case: two elements of one _request_segment call, dereferenced one
\* after the other.
C9_Witness ==
    /\ ret.op = "get_content" /\ ret.pre = <<2>> /\ ret.err = "none"
    /\ \E a, b \in 1..Len(elems) :
         /\ a # b /\ elems[a].call = elems[b].call /\ elems[a].id # elems[b].id
         /\ futures[elems[a].promise].requests = 1

IterUnchanged == it.pc # "none" /\ it.len0 = Len(server) /\ it.mut0 = mutations

\* C10: iterating a dataset whose cached count is the server's count n and
\* whose contents do not change yields the server's elements in order, page
\* by page, n of them when it ends; the elements of one page carry the same
\* content future, whose request lists that page's identifiers.
C10_IterationYieldsAll ==
    IterUnchanged =>
        /\ Len(yielded) <= Len(server)
        /\ ElemIds(yielded) = SubSeq(server, 1, Len(yielded))
        /\ it.pc = "done" => Len(yielded) = Len(server)
        /\ \A k \in 1..Len(yielded) :
             /\ yielded[k].call = (k - 1) \div ps
             /\ yielded[k].promise \in DOMAIN futures
             /\ futures[yielded[k].promise].ids = ServerPage(server, ps, yielded[k].call)
        /\ \A a, b \in 1..Len(yielded) :
             yielded[a].call = yielded[b].call => yielded[a].promise = yielded[b].promise

\* C10's case: an iteration over several pages that has ended.
C10_Witness ==
    /\ IterUnchanged /\ it.pc = "done"
    /\ it.number_of_pages >= 2 /\ Len(yielded) = Len(server)

\* The pages of the fetches the generator has submitted, in order.
IterPagesSubmitted == [k \in 1..Len(pagejobs) |-> pagejobs[k].page]

\* C11: one full iteration over a dataset of N pages submits the fetches of
\* exactly the pages 0, 1, ..., N-1, in increasing order and each once, and
\* the fetch of page p+1 is submitted by the time the elements of page p
\* are yielded.
C11_PagesFetchedOncePrefetched ==
    IterUnchanged =>
        /\ it.pc = "done" =>
             IterPagesSubmitted = [k \in 1..it.number_of_pages |-> k - 1]
        /\ \A k \in 1..Len(yielded) :
             yielded[k].call + 1 < it.number_of_pages =>
                \E j \in 1..Len(pagejobs) : pagejobs[j].page = yielded[k].call + 1

\* C12: ds[id] with an identifier string turns any failure of the fetch by
\* identifier (remote Not-Found, transport error, malformed response) into
\* KeyError, lets no other error reach the caller, and on success returns
\* exactly one element, with that identifier.
C12_IdLookupFailuresAreNotFound ==
    ret.op = "getitem_id" =>
        /\ ret.err \in {"none", "KeyError"}
        /\ ret.pre[1] # "none" => (ret.err = "KeyError" /\ elems = <<>>)
        /\ ret.pre[1] = "none" =>
              (ret.err = "none" /\ ElemIds(elems) = ret.arg /\ ret.arg[1] \in SeqRange(server))

\* C12's case: a transport error on the lookup of an identifier the server
\* lists.
C12_Witness ==
    /\ ret.op = "getitem_id" /\ ret.pre[1] = "TransportError"
    /\ ret.arg[1] \in SeqRange(server) /\ ret.err = "KeyError"

\* ds[i] with an index: the slice i:i+1:1 of lines 159-161.
IsIndexKey ==
    /\ ret.op = "getitem" /\ ret.arg.hasStop
    /\ ret.arg.stop = ret.arg.start + 1 /\ ret.arg.step = 1

\* C13: ds[i] with an index out of range (i >= the number of elements on
\* the server) returns no element and fails with the Not-Found error of an
\* empty result, KeyError.
C13_OutOfRangeIsNotFound ==
    (IsIndexKey /\ ret.arg.start >= Len(server))
    => /\ ret.err = "KeyError"
       /\ elems = <<>>

\* C14: an index, slice or identifier access that has fetched its elements
\* returns the list when there is more than one, the single element itself
\* when there is exactly one, and fails with KeyError when there is none.
C14_ListElementOrNotFound ==
    (ret.op \in {"getitem", "getitem_id"} /\ ret.err \in {"none", "KeyError"})
    => /\ Len(elems) > 1 => (ret.err = "none" /\ ret.shape = "list")
       /\ Len(elems) = 1 => (ret.err = "none" /\ ret.shape = "element")
       /\ Len(elems) = 0 => (ret.err = "KeyError" /\ ret.shape = "none")

\* C14's case: an index access that fetched one element and got it back
\* as the element, not as a list.
C14_Witness ==
    /\ IsIndexKey /\ ret.err = "none"
    /\ Len(elems) = 1 /\ ret.shape = "element"
    /\ elems[1].id = server[ret.arg.start + 1]

\* C15: _get_key never returns an identifier from a cached page that was
\* fetched more than CACHE_TIME before the lookup, also when other pages
\* were written to the cache in the meantime.
C15_NoStaleEntryReturned ==
    (ret.op = "get_key" /\ ret.err = "none" /\ http = <<>>)
    => ret.pre[4] <= CACHE_TIME

\* C17: when the bundle request of any segment of a slice access fails, the
\* access returns no element at all, not the elements of the segments that
\* succeeded, and the error of the failed request reaches the caller.
C17_SegmentFailureFailsAccess ==
    (ret.op = "getitem" /\ ret.pre # <<>> /\ ret.pre[1] > 0)
    => /\ ret.err = "RemoteError"
       /\ ret.shape = "none"
       /\ elems = <<>>

\* C17's case: of several segments one failed and another succeeded (its
\* content job was submitted).
C17_Witness ==
    /\ ret.op = "getitem" /\ ret.pre # <<>>
    /\ ret.pre[1] >= 1 /\ ret.pre[1] < ret.pre[2]
    /\ DOMAIN futures # {} /\ ret.err = "RemoteError"

\* C18: a content job that fails does not fail the slice access or the
\* iteration that submitted it: a slice access fails only when a bundle
\* request failed and otherwise returns its elements, an iteration yields
\* all elements, and the failure is what a later dereference of an element
\* of that job reports.
C18_ContentFailureDeferred ==
    /\ ret.op = "getitem" /\ ret.pre # <<>> =>
          /\ ret.err = "RemoteError" <=> ret.pre[1] > 0
          /\ ret.pre[1] = 0 => Len(elems) >= Len(ret.val)
    /\ IterUnchanged =>
          /\ ElemIds(yielded) = SubSeq(server, 1, Len(yielded))
          /\ it.pc = "done" => Len(yielded) = Len(server)
    /\ ret.op = "get_content" =>
          (ret.err = "RemoteError" <=> futures[ret.arg[2]].state = "failed")

\* C18's case: a slice access returned two elements, their content job
\* failed afterwards, and the dereference of one of them reports it.
C18_Witness ==
    /\ ret.op = "get_content" /\ ret.err = "RemoteError"
    /\ Len(elems) >= 2
    /\ \E k \in 1..Len(elems) : <<elems[k].id, elems[k].promise>> = ret.arg

\* C20: add_element with a string content that names no existing file
\* raises before any remote request: nothing is created on the server, no
\* refresh happens, and the cached count and the page cache stay as they
\* were.
C20_MissingFileChangesNothing ==
    [][(CallerFree /\ ret'.op = "add_element" /\ ret'.err = "Exception")
       => (/\ http' = <<>>
           /\ UNCHANGED <<server, next_id, mutations, elements_count,
                          page_cache, cache_age>>)]_vars

\* C20's case: the call failed on a dataset with elements and a page in
\* the cache.
C20_Witness ==
    /\ ret.op = "add_element" /\ ret.err = "Exception"
    /\ elements_count > 0 /\ DOMAIN page_cache # {}

\* C16: with several threads in _get_key on an unchanging dataset, in every
\* interleaving, also on the same missing page and across an expiry, every
\* cached page number maps to that page's server contents, every call
\* returns the identifier of its index (IndexError beyond the end), and a
\* call fetches at most one page.
C16_ConcurrentResolveConsistent ==
    /\ \A p \in DOMAIN page_cache : page_cache[p].ids = ServerPage(server, ps, p)
    /\ \A t \in Threads :
         /\ threads[t].fetches <= 1
         /\ threads[t].pc \in {"store", "stamp", "return"} =>
               threads[t].page = ServerPage(server, ps, threads[t].key_index \div ps)
         /\ threads[t].pc = "returned" =>
               IF threads[t].key_index < Len(server)
               THEN threads[t].err = "none" /\ threads[t].val = DirectFetch(threads[t].key_index)
               ELSE threads[t].err = "IndexError"

\* C16's case: two threads missed the same page, both fetched it, and both
\* returned.
C16_Witness ==
    \E t, u \in Threads :
        /\ t # u
        /\ threads[t].pc = "returned" /\ threads[u].pc = "returned"
        /\ threads[t].fetches = 1 /\ threads[u].fetches = 1
        /\ threads[t].key_index \div ps = threads[u].key_index \div ps
        /\ threads[t].err = "none" /\ threads[u].err = "none"

AllFinal(pool) == \A j \in 1..Len(pool) : pool[j].state \in Final

\* C19: with 4 workers in each pool and every remote call returning or
\* failing, every job submitted to either pool ends, and every slice access
\* and every step of an iteration returns, also with more segments or jobs
\* than workers.
C19_JobsEndCallsReturn ==
    /\ (Unfinished(pool_keys) + Unfinished(pool_content) > 0)
          ~> (AllFinal(pool_keys) /\ AllFinal(pool_content))
    /\ (main.pc \in {"submit", "collect", "iloop", "iwait"})
          ~> (main.pc \in {"isusp", "returned"})

\* C19's case: a slice access of more segments than pool_keys has workers
\* has returned its elements, while every worker of pool_content is busy
\* and a content job waits for one.
C19_Witness ==
    /\ main.op = "slice" /\ main.pc = "returned" /\ main.err = "none"
    /\ main.n > KeysWorkers /\ AllFinal(pool_keys)
    /\ Running(pool_content) = ContentWorkers
    /\ \E j \in 1..Len(pool_content) : pool_content[j].state = "queued"

====
